---- MODULE Spec2Model ----
(***************************************************************************)
(* The trait library of the Felix backend: TraitManager (load, _save,      *)
(* assimilate, get_knowledge_base_string), FelixEngine (its construction   *)
(* and analyze, which parses the oracle's response and feeds its           *)
(* new_trait_definitions to TraitManager.assimilate) and the routes of     *)
(* main.py. Spec follows one request at a time, each handler in one step   *)
(* around the oracle call; SpecServer follows several requests on the      *)
(* event loop, the analyze handler step by step.                           *)
(***************************************************************************)
EXTENDS Integers, Sequences, FiniteSets, TLC

\* ------------------------------------------------------------------ bounds
NumKeys == 2        \* distinct trait keys the oracle may propose
MaxCand == 2        \* most entries in one new_trait_definitions mapping

Keys == 1..NumKeys
\* Distinct contents of a structurally complete trait. Content 1 holds what
\* SYSTEM_PROMPT asks for (sin_weights a mapping of numbers); in content 2
\* sin_weights is null.
Versions == {1, 2}

\* ------------------------------------------------------------- JSON values
\* A trait's data as json.loads delivers it: a dict (with the set of fields it
\* carries and a content version v), or a non-container value (null).
Dict(fields, v) == [kind |-> "dict", fields |-> fields, v |-> v]
Null == [kind |-> "null", fields |-> {}, v |-> 0]

FullFields == {"definition", "sin_weights", "complexity_score"}
FullTraits == {Dict(FullFields, v) : v \in Versions}
TraitData ==
    FullTraits \cup {Dict({"definition", "complexity_score"}, 1), Dict({"sin_weights"}, 1), Null}

Item(k, d) == [key |-> k, data |-> d]
\* An ordered mapping (a Python dict keeps insertion order): a sequence of
\* items with pairwise distinct keys.
KeysOf(items) == {items[i].key : i \in DOMAIN items}
Distinct(items) == \A i, j \in DOMAIN items : items[i].key = items[j].key => i = j
MappingsOver(D) ==
    {m \in UNION {[1..n -> {Item(k, d) : k \in Keys, d \in D}] : n \in 0..MaxCand} : Distinct(m)}
CandMappings == MappingsOver(TraitData)
Get(items, k) == items[CHOOSE i \in DOMAIN items : items[i].key = k].data

\* The value found under "new_trait_definitions": a mapping, null, or no such key.
DefsDict(items) == [kind |-> "dict", items |-> items]
DefsNull == [kind |-> "null", items |-> <<>>]
DefsAbsent == [kind |-> "absent", items |-> <<>>]
DefsValues == {DefsDict(m) : m \in CandMappings} \cup {DefsNull, DefsAbsent}

LogEntry(k, b) == [assigned_trait |-> k, is_new_discovery |-> b]
Logs == {<<LogEntry(1, TRUE)>>, <<LogEntry(NumKeys, FALSE)>>}

\* The document the oracle's text encodes: a dict with analysis_log and
\* new_trait_definitions, some other JSON value (a list), or no JSON at all.
Doc(log, defs) == [kind |-> "dict", log |-> log, defs |-> defs]
ListDoc == [kind |-> "list", log |-> <<>>, defs |-> DefsAbsent]
Garbage == [kind |-> "garbage", log |-> <<>>, defs |-> DefsAbsent]
\* Every new_trait_definitions value under one log, a few under every log.
SampleDefs ==
    {DefsAbsent, DefsDict(<<Item(1, Dict(FullFields, 1))>>),
     DefsDict(<<Item(NumKeys, Dict(FullFields, 1)), Item(1, Dict({"sin_weights"}, 1))>>)}
Bodies ==
    {Doc(<<LogEntry(1, TRUE)>>, d) : d \in DefsValues}
        \cup {Doc(l, d) : l \in Logs, d \in SampleDefs}
        \cup {ListDoc, Garbage}

\* The response text, as tokens around the body: FENCE (three backticks),
\* "json", "tag" (any other word), "ws" (whitespace).
FENCE == "fence"
Text(pre, body, post) == [pre |-> pre, body |-> body, post |-> post]
Wrap(pre, post) == [pre |-> pre, post |-> post]
Wrappers ==
    { Wrap(<<>>, <<>>),
      Wrap(<<"ws">>, <<"ws">>),
      Wrap(<<FENCE, "json", "ws">>, <<"ws", FENCE>>),
      Wrap(<<FENCE, "ws">>, <<"ws", FENCE>>),
      Wrap(<<FENCE, "tag", "ws">>, <<"ws", FENCE>>) }
\* Every body bare, and a few bodies in every wrapper.
WrappedBodies == {Garbage, ListDoc} \cup {Doc(<<LogEntry(1, TRUE)>>, d) : d \in SampleDefs}
Texts ==
    {Text(<<>>, b, <<>>) : b \in Bodies}
        \cup {Text(w.pre, b, w.post) : w \in Wrappers, b \in WrappedBodies}

\* ------------------------------------------------------------ the library
META == "2.1"
Library(meta, traits) == [kind |-> "lib", meta |-> meta, traits |-> traits]
EmptyDict == [kind |-> "empty", meta |-> "", traits |-> <<>>]

\* TRAIT_FILE: absent, a serialised library, or bytes that are no JSON.
NoFile == [kind |-> "absent", meta |-> "", traits |-> <<>>]
Malformed == [kind |-> "malformed", meta |-> "", traits |-> <<>>]
Dump(lib) == [kind |-> "doc", meta |-> lib.meta, traits |-> lib.traits]

\* How one _save call ends: written; failed before the file was opened;
\* failed after open(.., "w") truncated it.
SaveOutcomes == {"ok", "fail_before_open", "fail_after_open"}

\* ------------------------------------------------- TraitManager (the store)
\* _save: mkdir, open(TRAIT_FILE, "w"), json.dump. [file, err]
save(lib, f, so) ==
    CASE so = "ok" -> [file |-> Dump(lib), err |-> "none"]
      [] so = "fail_before_open" -> [file |-> f, err |-> "OSError"]
      [] so = "fail_after_open" -> [file |-> Malformed, err |-> "OSError"]

\* `self._library["traits"][trait_key] = trait_data`: a dict assignment
\* replaces the value of a key it has and appends a key it has not.
setitem(traits, trait_key, trait_data) ==
    IF trait_key \in KeysOf(traits)
    THEN [i \in DOMAIN traits |->
            IF traits[i].key = trait_key THEN Item(trait_key, trait_data) ELSE traits[i]]
    ELSE Append(traits, Item(trait_key, trait_data))

\* The presence check left out: every candidate reaches the validation.
known_never(traits, trait_key) == FALSE

\* `trait_key in self._library["traits"]`
known(traits, trait_key) == trait_key \in KeysOf(traits)

\* `"definition" in trait_data and "sin_weights" in trait_data`: membership
\* in a dict is key membership; in None it raises TypeError.
validate(trait_data) ==
    IF trait_data.kind # "dict" THEN "TypeError"
    ELSE IF "definition" \in trait_data.fields /\ "sin_weights" \in trait_data.fields
         THEN "insert"
         ELSE "drop"

\* The key put in front of the list instead of at its end.
append_front(added, trait_key) == <<trait_key>> \o added

\* `added.append(trait_key)`
append(added, trait_key) == Append(added, trait_key)

\* The for loop of assimilate over new_traits.items(), from position i on.
RECURSIVE loop(_, _, _, _)
loop(traits, added, items, i) ==
    IF i > Len(items) THEN [traits |-> traits, added |-> added, err |-> "none"]
    ELSE LET trait_key == items[i].key
             trait_data == items[i].data
         IN  IF known(traits, trait_key) THEN loop(traits, added, items, i + 1)
             ELSE CASE validate(trait_data) = "TypeError" ->
                         [traits |-> traits, added |-> added, err |-> "TypeError"]
                    [] validate(trait_data) = "insert" ->
                         loop(setitem(traits, trait_key, trait_data),
                              append(added, trait_key), items, i + 1)
                    [] validate(trait_data) = "drop" ->
                         loop(traits, added, items, i + 1)

\* The library saved on every call, insertions or not.
must_save_always(added) == TRUE

\* `if added:`
must_save(added) == added # <<>>

\* The insertions undone when _save fails.
assimilate_rollback(lib, f, new_traits, so) ==
    IF new_traits.kind # "dict"
    THEN [library |-> lib, file |-> f, added |-> <<>>, err |-> "AttributeError", saves |-> 0]
    ELSE LET r == loop(lib.traits, <<>>, new_traits.items, 1)
             lib2 == [lib EXCEPT !.traits = r.traits]
         IN  IF r.err # "none"
             THEN [library |-> lib2, file |-> f, added |-> r.added, err |-> r.err, saves |-> 0]
             ELSE IF must_save(r.added)
                  THEN LET s == save(lib2, f, so)
                       IN  [library |-> IF s.err = "none" THEN lib2 ELSE lib,
                            file |-> s.file, added |-> r.added, err |-> s.err, saves |-> 1]
                  ELSE [library |-> lib2, file |-> f, added |-> r.added,
                        err |-> "none", saves |-> 0]

\* assimilate(new_traits) on library lib and file f, with so the way a _save
\* call would end. [library, file, added, err, saves]; saves counts _save calls.
assimilate(lib, f, new_traits, so) ==
    IF new_traits.kind # "dict"
    THEN [library |-> lib, file |-> f, added |-> <<>>, err |-> "AttributeError", saves |-> 0]
    ELSE LET r == loop(lib.traits, <<>>, new_traits.items, 1)
             lib2 == [lib EXCEPT !.traits = r.traits]
         IN  IF r.err # "none"
             THEN [library |-> lib2, file |-> f, added |-> r.added, err |-> r.err, saves |-> 0]
             ELSE IF must_save(r.added)
                  THEN LET s == save(lib2, f, so)
                       IN  [library |-> lib2, file |-> s.file, added |-> r.added,
                            err |-> s.err, saves |-> 1]
                  ELSE [library |-> lib2, file |-> f, added |-> r.added,
                        err |-> "none", saves |-> 0]

\* The skeleton kept in memory only.
load_unsaved(f, so) ==
    CASE f.kind = "doc" ->
            [library |-> Library(f.meta, f.traits), file |-> f, err |-> "none", saves |-> 0]
      [] f.kind = "malformed" ->
            [library |-> EmptyDict, file |-> f, err |-> "JSONDecodeError", saves |-> 0]
      [] f.kind = "absent" ->
            [library |-> Library(META, <<>>), file |-> f, err |-> "none", saves |-> 0]

\* Content that does not parse treated like no content.
load_fallback(f, so) ==
    CASE f.kind = "doc" ->
            [library |-> Library(f.meta, f.traits), file |-> f, err |-> "none", saves |-> 0]
      [] f.kind \in {"malformed", "absent"} ->
            LET skeleton == Library(META, <<>>)
                s == save(skeleton, f, so)
            IN  [library |-> skeleton, file |-> s.file, err |-> s.err, saves |-> 1]

\* load(): [library, file, err, saves]; saves counts _save calls.
load(f, so) ==
    CASE f.kind = "doc" ->
            [library |-> Library(f.meta, f.traits), file |-> f, err |-> "none", saves |-> 0]
      [] f.kind = "malformed" ->
            [library |-> EmptyDict, file |-> f, err |-> "JSONDecodeError", saves |-> 0]
      [] f.kind = "absent" ->
            LET skeleton == Library(META, <<>>)
                s == save(skeleton, f, so)
            IN  [library |-> skeleton, file |-> s.file, err |-> s.err, saves |-> 1]

\* self._library.get("traits", {})
get_traits(lib) == lib.traits

\* data.get("sin_weights", {}): the field's value, or the default mapping.
weights_of(data) ==
    IF "sin_weights" \in data.fields /\ data.v = 2 THEN "null" ELSE "mapping"

\* One line of the knowledge base: "- key: definition [Weights: ..] (complexity: ..)".
Line(item) ==
    [key |-> item.key,
     definition |-> IF "definition" \in item.data.fields THEN item.data.v ELSE 0,
     weights |-> IF "sin_weights" \in item.data.fields THEN item.data.v ELSE 0]
PLACEHOLDER == "(No traits learned yet)"

\* get_knowledge_base_string(): [err, text, lines]. text is PLACEHOLDER, or
\* "joined" for the lines joined with newlines (the empty string when there
\* are no lines). weights.items() raises AttributeError when weights is None.
get_knowledge_base_string(lib) ==
    LET traits == get_traits(lib)
    IN  IF traits = <<>>
        THEN [err |-> "none", text |-> PLACEHOLDER, lines |-> <<>>]
        ELSE IF \E i \in DOMAIN traits : weights_of(traits[i].data) # "mapping"
             THEN [err |-> "AttributeError", text |-> "", lines |-> <<>>]
             ELSE [err |-> "none", text |-> "joined",
                   lines |-> [i \in DOMAIN traits |-> Line(traits[i])]]

\* ------------------------------------------------------------ FelixEngine
\* The configuration check that always passes.
FelixEngine_init_unchecked(key) == "none"

\* FelixEngine.__init__: `if not api_key: raise ValueError(..)`.
FelixEngine_init(key) == IF key THEN "none" ELSE "ValueError"

\* _engine is None
None == 0

\* An engine built on every call.
get_engine_always(eng, n, key) ==
    IF FelixEngine_init(key) = "none"
    THEN [engine |-> n + 1, made |-> n + 1, err |-> "none"]
    ELSE [engine |-> eng, made |-> n, err |-> FelixEngine_init(key)]

\* get_engine() with _engine = eng, after n engines were constructed, the
\* n + 1st being the next. [engine, made, err]
get_engine(eng, n, key) ==
    IF eng = None
    THEN IF FelixEngine_init(key) = "none"
         THEN [engine |-> n + 1, made |-> n + 1, err |-> "none"]
         ELSE [engine |-> eng, made |-> n, err |-> FelixEngine_init(key)]
    ELSE [engine |-> eng, made |-> n, err |-> "none"]

RECURSIVE lstrip(_)
lstrip(s) == IF s # <<>> /\ Head(s) = "ws" THEN lstrip(Tail(s)) ELSE s
RECURSIVE rstrip(_)
rstrip(s) == IF s # <<>> /\ s[Len(s)] = "ws" THEN rstrip(SubSeq(s, 1, Len(s) - 1)) ELSE s

\* response.text.strip()
strip(t) == Text(lstrip(t.pre), t.body, rstrip(t.post))

\* The opening fence removed and a tag after it left in place.
sub_leading_fence_only(t) ==
    IF t.pre # <<>> /\ Head(t.pre) = FENCE THEN Text(lstrip(Tail(t.pre)), t.body, t.post) ELSE t

\* re.sub(r"^```(?:json)?\s*", "", raw_text)
sub_leading(t) ==
    IF t.pre # <<>> /\ Head(t.pre) = FENCE
    THEN LET p == Tail(t.pre)
             q == IF p # <<>> /\ Head(p) = "json" THEN Tail(p) ELSE p
         IN  Text(lstrip(q), t.body, t.post)
    ELSE t

\* re.sub(r"\s*```$", "", raw_text)
sub_trailing(t) ==
    IF t.post # <<>> /\ t.post[Len(t.post)] = FENCE
    THEN Text(t.pre, t.body, rstrip(SubSeq(t.post, 1, Len(t.post) - 1)))
    ELSE t

\* `if raw_text.startswith("```"):` and the two substitutions
strip_fences(t) ==
    IF t.pre # <<>> /\ Head(t.pre) = FENCE THEN sub_trailing(sub_leading(t)) ELSE t

\* Stray words around the value tolerated.
parses_lenient(t) == t.body.kind # "garbage"

\* json.loads accepts whitespace around one JSON value and nothing else.
parses(t) == t.body.kind # "garbage" /\ lstrip(t.pre) = <<>> /\ rstrip(t.post) = <<>>

\* The field read under a name the oracle does not use: always the default.
new_defs_of_wrong_key(result) == DefsDict(<<>>)

\* The field read without a default: `result["new_trait_definitions"]`.
new_defs_of_no_default(result) == result.defs

\* The field read only when the log reports a discovery.
new_defs_of_if_discovery(result) ==
    IF \E i \in DOMAIN result.log : result.log[i].is_new_discovery
    THEN (IF result.defs.kind = "absent" THEN DefsDict(<<>>) ELSE result.defs)
    ELSE DefsDict(<<>>)

\* result.get("new_trait_definitions", {})
new_defs_of(result) == IF result.defs.kind = "absent" THEN DefsDict(<<>>) ELSE result.defs

\* How a call of FelixEngine.analyze ends: status "returned" with the result
\* dict (and its _newly_added_traits), or "raised" with the error. The rest
\* records the call: the oracle's text, whether assimilate was called, with
\* which argument, and how many times _save was called.
Outcome(status, err, result, newly_added, text, assimilated, arg, saves) ==
    [status |-> status, err |-> err, result |-> result, newly_added |-> newly_added,
     text |-> text, assimilated |-> assimilated, arg |-> arg, saves |-> saves]
NoText == Text(<<"none">>, Garbage, <<>>)
NoCall == Outcome("none", "none", Garbage, <<>>, NoText, FALSE, DefsAbsent, 0)
Raised(err, text, assimilated, arg, saves) ==
    Outcome("raised", err, Garbage, <<>>, text, assimilated, arg, saves)

\* Lines 92-106 of analyze, on the oracle's text. [library, file, out]
analyze(lib, f, text, so) ==
    LET raw_text == strip_fences(strip(text))
    IN  IF ~parses(raw_text)
        THEN [library |-> lib, file |-> f,
              out |-> Raised("JSONDecodeError", text, FALSE, DefsAbsent, 0)]
        ELSE LET result == raw_text.body
             IN  IF result.kind # "dict"
                 THEN [library |-> lib, file |-> f,
                       out |-> Raised("AttributeError", text, FALSE, DefsAbsent, 0)]
                 ELSE LET new_defs == new_defs_of(result)
                          a == assimilate(lib, f, new_defs, so)
                      IN  [library |-> a.library, file |-> a.file,
                           out |-> IF a.err # "none"
                                   THEN Raised(a.err, text, TRUE, new_defs, a.saves)
                                   ELSE Outcome("returned", "none", result, a.added,
                                                text, TRUE, new_defs, a.saves)]

\* ------------------------------------------------------------------ state
VARIABLES
    library,        \* TraitManager._library
    file,           \* the content of TRAIT_FILE
    pc,             \* "boot", "crashed", "idle", "oracle" (generate_content is running)
    last,           \* how the FelixEngine.analyze call of the current request ended
    booted,         \* how TraitManager() ended: [err, saves]
    api_key,        \* GEMINI_API_KEY is set in the process environment
    engine,         \* main._engine: None, or the number of the instance it holds
    made,           \* FelixEngine instances constructed so far
    oracle_calls,   \* generate_content calls issued by the current request
    reqs,           \* the requests at the boundary, each with its handler's position
    running         \* the request whose handler occupies the event loop, or "none"

store == <<library, file>>
proc == <<api_key, engine, made>>
srv == <<reqs, running>>
vars == <<library, file, pc, last, booted, api_key, engine, made, oracle_calls, reqs, running>>

\* Traits a previous run of the program can have left in TRAIT_FILE.
StoredTraits == {<<>>, <<Item(1, Dict(FullFields, 1))>>}

\* The requests the server model follows: two POST /api/analyze, one GET /api/brain.
AnalyzeReqs == {"a1", "a2"}
Reqs == AnalyzeReqs \cup {"b"}
Req(phase, items, i, added, err) ==
    [phase |-> phase, items |-> items, i |-> i, added |-> added, err |-> err]
NoReq == Req("none", <<>>, 1, <<>>, "none")

Init ==
    /\ library = EmptyDict
    /\ file \in {NoFile, Malformed} \cup {Dump(Library(META, t)) : t \in StoredTraits}
    /\ pc = "boot"
    /\ last = NoCall
    /\ booted = [err |-> "none", saves |-> 0]
    /\ api_key \in BOOLEAN
    /\ engine = None
    /\ made = 0
    /\ oracle_calls = 0
    /\ reqs = [r \in Reqs |-> NoReq]
    /\ running = "none"

\* trait_manager = TraitManager(): __init__ calls load().
Load ==
    /\ pc = "boot"
    /\ \E so \in SaveOutcomes :
         LET r == load(file, so)
         IN  /\ library' = r.library
             /\ file' = r.file
             /\ booted' = [err |-> r.err, saves |-> r.saves]
             /\ pc' = IF r.err = "none" THEN "idle" ELSE "crashed"
    /\ UNCHANGED <<last, oracle_calls>>
    /\ UNCHANGED <<proc, srv>>

\* POST /api/analyze: get_engine(), then FelixEngine.analyze up to the call of
\* generate_content, which blocks the event loop.
StartAnalyze ==
    /\ pc = "idle"
    /\ \E g \in {get_engine(engine, made, api_key)} :
         /\ engine' = g.engine
         /\ made' = g.made
         /\ IF g.err # "none"
            THEN /\ pc' = "idle"
                 /\ last' = Raised(g.err, NoText, FALSE, DefsAbsent, 0)
                 /\ oracle_calls' = 0
            ELSE \E kb \in {get_knowledge_base_string(library)} :
                    IF kb.err # "none"
                    THEN /\ pc' = "idle"
                         /\ last' = Raised(kb.err, NoText, FALSE, DefsAbsent, 0)
                         /\ oracle_calls' = 0
                    ELSE /\ pc' = "oracle"
                         /\ last' = NoCall
                         /\ oracle_calls' = 1
    /\ UNCHANGED <<store, booted, api_key, srv>>

\* generate_content called again after it raised.
OracleFailRetry ==
    /\ pc = "oracle"
    /\ oracle_calls < 3
    /\ oracle_calls' = oracle_calls + 1
    /\ UNCHANGED <<store, pc, last, booted, proc, srv>>

\* generate_content raises.
OracleFail ==
    /\ pc = "oracle"
    /\ pc' = "idle"
    /\ last' = Raised("TransportError", NoText, FALSE, DefsAbsent, 0)
    /\ UNCHANGED <<store, booted, oracle_calls, proc, srv>>

\* generate_content returns text; analyze runs to its end.
OracleReturn ==
    /\ pc = "oracle"
    /\ \E text \in Texts, so \in SaveOutcomes :
         \E r \in {analyze(library, file, text, so)} :
             /\ library' = r.library
             /\ file' = r.file
             /\ last' = r.out
    /\ pc' = "idle"
    /\ UNCHANGED <<booted, oracle_calls, proc, srv>>

Next == Load \/ StartAnalyze \/ OracleFail \/ OracleReturn

Spec == Init /\ [][Next]_vars

\* ------------------------------------------ the requests on the event loop
\* The handlers of Spec step by step, with the requests that wait for them.
\* POST /api/analyze is a coroutine on the one event loop thread; GET
\* /api/brain is a plain function, which the loop hands to a worker thread.

\* What the oracle proposes in the server model.
ServerDefs ==
    { <<Item(1, Dict(FullFields, 1))>>,
      <<Item(1, Dict(FullFields, 2))>>,
      <<Item(2, Dict(FullFields, 1)), Item(1, Dict({"sin_weights"}, 1))>> }
ServerTexts ==
    {Text(<<>>, Doc(<<LogEntry(1, TRUE)>>, DefsDict(m)), <<>>) : m \in ServerDefs}
        \cup {Text(<<>>, Garbage, <<>>)}

\* Handlers that run in threads of their own.
may_run_threads(owner, r) == TRUE

\* The event loop runs one handler at a time, and a coroutine keeps the loop
\* until it awaits something that suspends it: main.analyze awaits only
\* engine.analyze, which holds no await, so from get_engine() to its return
\* the handler of r runs only when the loop is free or r itself holds it.
may_run(owner, r) == owner \in {"none", r}

\* A handler that ended: the error or "none", with what assimilate was given
\* and the keys it reported.
Done(items, err, added) == Req("done", items, 1, added, err)

ServerInit ==
    /\ library = Library(META, <<>>)
    /\ file = Dump(library)
    /\ pc = "idle"
    /\ last = NoCall
    /\ booted = [err |-> "none", saves |-> 1]
    /\ api_key \in BOOLEAN
    /\ engine = None
    /\ made = 0
    /\ oracle_calls = 0
    /\ reqs = [r \in Reqs |-> NoReq]
    /\ running = "none"

\* A request reaches the server's socket.
Arrive(r) ==
    /\ reqs[r].phase = "none"
    /\ reqs' = [reqs EXCEPT ![r].phase = "arrived"]
    /\ UNCHANGED <<store, pc, last, booted, oracle_calls, proc, running>>

\* main.analyze from its start to the call of generate_content: get_engine(),
\* the knowledge base, the prompt.
Begin(r) ==
    /\ reqs[r].phase = "arrived"
    /\ may_run(running, r)
    /\ \E g \in {get_engine(engine, made, api_key)} :
         /\ engine' = g.engine
         /\ made' = g.made
         /\ IF g.err # "none"
            THEN reqs' = [reqs EXCEPT ![r] = Done(<<>>, g.err, <<>>)] /\ UNCHANGED running
            ELSE \E kb \in {get_knowledge_base_string(library)} :
                    IF kb.err # "none"
                    THEN reqs' = [reqs EXCEPT ![r] = Done(<<>>, kb.err, <<>>)] /\ UNCHANGED running
                    ELSE reqs' = [reqs EXCEPT ![r].phase = "oracle"] /\ running' = r
    /\ UNCHANGED <<store, pc, last, booted, oracle_calls, api_key>>

\* generate_content raises: the handler answers 500.
OracleRaises(r) ==
    /\ reqs[r].phase = "oracle"
    /\ may_run(running, r)
    /\ reqs' = [reqs EXCEPT ![r] = Done(<<>>, "TransportError", <<>>)]
    /\ running' = "none"
    /\ UNCHANGED <<store, pc, last, booted, oracle_calls, proc>>

\* generate_content returns: the text is stripped and parsed, and assimilate
\* is entered with result.get("new_trait_definitions", {}).
OracleAnswers(r) ==
    /\ reqs[r].phase = "oracle"
    /\ may_run(running, r)
    /\ \E text \in ServerTexts :
         LET raw_text == strip_fences(strip(text))
             new_defs == new_defs_of(raw_text.body)
         IN  IF ~parses(raw_text)
             THEN reqs' = [reqs EXCEPT ![r] = Done(<<>>, "JSONDecodeError", <<>>)] /\ running' = "none"
             ELSE IF raw_text.body.kind # "dict" \/ new_defs.kind # "dict"
                  THEN /\ reqs' = [reqs EXCEPT ![r] = Done(<<>>, "AttributeError", <<>>)]
                       /\ running' = "none"
                  ELSE /\ reqs' = [reqs EXCEPT ![r] = Req("loop", new_defs.items, 1, <<>>, "none")]
                       /\ UNCHANGED running
    /\ UNCHANGED <<store, pc, last, booted, oracle_calls, proc>>

\* One turn of assimilate's loop up to the insertion: the presence check and
\* the validation of candidate i; after the last candidate, `if added:`.
Check(r) ==
    /\ reqs[r].phase = "loop"
    /\ may_run(running, r)
    /\ LET q == reqs[r]
       IN  IF q.i > Len(q.items)
           THEN IF must_save(q.added)
                THEN reqs' = [reqs EXCEPT ![r].phase = "save"] /\ UNCHANGED running
                ELSE reqs' = [reqs EXCEPT ![r] = Done(q.items, "none", q.added)] /\ running' = "none"
           ELSE IF known(library.traits, q.items[q.i].key)
                THEN reqs' = [reqs EXCEPT ![r].i = q.i + 1] /\ UNCHANGED running
                ELSE CASE validate(q.items[q.i].data) = "TypeError" ->
                            /\ reqs' = [reqs EXCEPT ![r] = Done(q.items, "TypeError", q.added)]
                            /\ running' = "none"
                       [] validate(q.items[q.i].data) = "insert" ->
                            reqs' = [reqs EXCEPT ![r].phase = "checked"] /\ UNCHANGED running
                       [] validate(q.items[q.i].data) = "drop" ->
                            reqs' = [reqs EXCEPT ![r].i = q.i + 1] /\ UNCHANGED running
    /\ UNCHANGED <<store, pc, last, booted, oracle_calls, proc>>

\* The insertion of a candidate that passed both checks.
Insert(r) ==
    /\ reqs[r].phase = "checked"
    /\ may_run(running, r)
    /\ LET q == reqs[r]
       IN  /\ library' = [library EXCEPT
                            !.traits = setitem(@, q.items[q.i].key, q.items[q.i].data)]
           /\ reqs' = [reqs EXCEPT ![r] = Req("loop", q.items, q.i + 1,
                                              append(q.added, q.items[q.i].key), "none")]
    /\ UNCHANGED <<file, pc, last, booted, oracle_calls, proc, running>>

\* self._save(), and the handler's answer.
Save(r) ==
    /\ reqs[r].phase = "save"
    /\ may_run(running, r)
    /\ \E so \in SaveOutcomes :
         \E sv \in {save(library, file, so)} :
             /\ file' = sv.file
             /\ reqs' = [reqs EXCEPT ![r] = Done(reqs[r].items, sv.err, reqs[r].added)]
    /\ running' = "none"
    /\ UNCHANGED <<library, pc, last, booted, oracle_calls, proc>>

\* GET /api/brain: the loop accepts the request and hands get_brain to a
\* worker thread.
BrainDispatch ==
    /\ reqs["b"].phase = "arrived"
    /\ may_run(running, "b")
    /\ reqs' = [reqs EXCEPT !["b"].phase = "thread"]
    /\ UNCHANGED <<store, pc, last, booted, oracle_calls, proc, running>>

\* The worker thread runs get_brain: trait_manager.get_library().
BrainRun ==
    /\ reqs["b"].phase = "thread"
    /\ reqs' = [reqs EXCEPT !["b"].phase = "ready"]
    /\ UNCHANGED <<store, pc, last, booted, oracle_calls, proc, running>>

\* The loop serialises what get_brain returned and sends the response.
BrainRespond ==
    /\ reqs["b"].phase = "ready"
    /\ may_run(running, "b")
    /\ reqs' = [reqs EXCEPT !["b"] = Done(<<>>, "none", <<>>)]
    /\ UNCHANGED <<store, pc, last, booted, oracle_calls, proc, running>>

ServerNext ==
    \/ \E r \in Reqs : Arrive(r)
    \/ \E r \in AnalyzeReqs : Begin(r)
    \/ \E r \in AnalyzeReqs : OracleRaises(r)
    \/ \E r \in AnalyzeReqs : OracleAnswers(r)
    \/ \E r \in AnalyzeReqs : Check(r)
    \/ \E r \in AnalyzeReqs : Insert(r)
    \/ \E r \in AnalyzeReqs : Save(r)
    \/ BrainDispatch
    \/ BrainRun
    \/ BrainRespond

SpecServer == ServerInit /\ [][ServerNext]_vars

\* ----------------------------------------------------------------- claims
\* The step in which a call of analyze ends, and the one in which it ends
\* having called assimilate.
AnalyzeEnds == pc = "oracle" /\ pc' = "idle"
AssimilateEnds == AnalyzeEnds /\ last'.assimilated

\* A trait's data carries both required fields.
Carries(d) == {"definition", "sin_weights"} \subseteq d.fields
Has(traits, k, d) == \E i \in DOMAIN traits : traits[i] = Item(k, d)

\* C1: first-write-wins. Over every step, a key of the traits mapping stays in
\* it with the data it has; in particular an assimilate call that proposes
\* other data for a key the library has leaves that entry as it is.
FirstWriteWins ==
    [][\A i \in DOMAIN library.traits :
          Has(library'.traits, library.traits[i].key, library.traits[i].data)]_vars

\* C1 witness: assimilate has run on candidates with complete data for a key
\* the library holds with other data, and did not report that key as added.
FirstWriteWinsWitness ==
    /\ last.assimilated
    /\ \E i \in DOMAIN last.arg.items, j \in DOMAIN library.traits :
          /\ last.arg.items[i].key = library.traits[j].key
          /\ Carries(last.arg.items[i].data)
          /\ last.arg.items[i].data # library.traits[j].data
          /\ \A n \in DOMAIN last.newly_added :
                last.newly_added[n] # library.traits[j].key

\* C2: idempotent re-assimilation. From every library state the program
\* reaches, for every candidate mapping C, assimilate(C) followed by
\* assimilate(C) returns the empty list from the second call and leaves the
\* library and the file as the first call left them.
IdempotentReassimilation ==
    pc = "idle" =>
        \A C \in CandMappings, so1, so2 \in SaveOutcomes :
            LET first == assimilate(library, file, DefsDict(C), so1)
                second == assimilate(first.library, first.file, DefsDict(C), so2)
            IN  /\ second.err = "none"
                /\ second.added = <<>>
                /\ second.library = first.library
                /\ second.file = first.file

\* C3: validation gate. A candidate whose data lacks `definition` or
\* `sin_weights` is not in the library after the call, is not in the returned
\* list, and does not make the call raise; every other candidate of the call
\* is processed (a complete one is in the library afterwards).
ValidationGate ==
    last.assimilated /\ last.arg.kind = "dict" =>
        /\ \A i \in DOMAIN last.arg.items :
              ~Carries(last.arg.items[i].data) =>
                  /\ ~Has(library.traits, last.arg.items[i].key, last.arg.items[i].data)
                  /\ \A n \in DOMAIN last.newly_added :
                        last.newly_added[n] # last.arg.items[i].key
        /\ last.err \notin {"TypeError", "AttributeError"}
        /\ \A i \in DOMAIN last.arg.items :
              Carries(last.arg.items[i].data) =>
                  last.arg.items[i].key \in KeysOf(library.traits)

\* The keys of the candidates, in the candidates' order, that the library
\* does not have and whose data carries both required fields.
AcceptedKeys(items, traits) ==
    LET idx == {i \in DOMAIN items :
                    items[i].key \notin KeysOf(traits) /\ Carries(items[i].data)}
        nth(n) == CHOOSE i \in idx : Cardinality({j \in idx : j < i}) = n - 1
    IN  [n \in 1..Cardinality(idx) |-> items[nth(n)].key]
Range(seq) == {seq[i] : i \in DOMAIN seq}

PersistIffInserted ==
    [][AssimilateEnds =>
          /\ (last'.status = "returned" /\ last'.newly_added # <<>> =>
                last'.saves = 1 /\ file' = Dump(library'))
          /\ (library'.traits = library.traits =>
                last'.saves = 0 /\ file' = file)]_vars

\* C5 witness: a call returned after inserting into a library that already
\* had traits, and the file holds old and new traits alike.
PersistIffInsertedWitness ==
    /\ last.status = "returned"
    /\ last.newly_added # <<>>
    /\ Len(library.traits) > Len(last.newly_added)
    /\ file = Dump(library)

\* C6: when the one _save of an assimilate call does not leave the library in
\* the file, the call raises the storage error, has called _save exactly
\* once, accepted at least one candidate, and the traits mapping holds every
\* candidate the call accepted.
SaveFailureKeepsInsertions ==
    [][AssimilateEnds /\ last'.saves > 0 /\ file' # Dump(library') =>
          LET accepted == AcceptedKeys(last'.arg.items, library.traits)
          IN  /\ last'.status = "raised" /\ last'.err = "OSError"
              /\ last'.saves = 1
              /\ accepted # <<>>
              /\ \A n \in DOMAIN accepted :
                    Has(library'.traits, accepted[n], Get(last'.arg.items, accepted[n]))]_vars

\* C6 witness: a call ended with the storage error and the library holds a
\* candidate of that call which the file does not hold.
SaveFailureKeepsInsertionsWitness ==
    /\ last.err = "OSError"
    /\ last.assimilated
    /\ file.kind = "doc"
    /\ \E i \in DOMAIN last.arg.items :
          /\ Has(library.traits, last.arg.items[i].key, last.arg.items[i].data)
          /\ last.arg.items[i].key \notin KeysOf(file.traits)

\* A text that is one JSON value with nothing but whitespace around it.
IsJsonText(t) ==
    /\ t.body.kind # "garbage"
    /\ \A i \in DOMAIN t.pre : t.pre[i] = "ws"
    /\ \A i \in DOMAIN t.post : t.post[i] = "ws"
\* The oracle's text as analyze hands it to json.loads.
Normalized(t) == strip_fences(strip(t))
Answered == last'.text # NoText

UnparseableLeavesStore ==
    [][AnalyzeEnds /\ Answered /\ ~IsJsonText(Normalized(last'.text)) =>
          /\ last'.status = "raised" /\ last'.err = "JSONDecodeError"
          /\ ~last'.assimilated
          /\ last'.saves = 0
          /\ library' = library
          /\ file' = file]_vars

\* C8 witness: analyze raised the parsing error on a text whose body proposes
\* a trait (in a fence that the stripping does not remove entirely).
UnparseableLeavesStoreWitness ==
    /\ last.err = "JSONDecodeError"
    /\ last.text.body.kind = "dict"
    /\ last.text.body.defs.items # <<>>

\* C9: when the parsed response is a dict without new_trait_definitions,
\* analyze returns with an empty _newly_added_traits, and the library and the
\* file are as before.
AbsentDefsIsEmpty ==
    [][/\ AnalyzeEnds /\ Answered /\ IsJsonText(Normalized(last'.text))
       /\ last'.text.body.kind = "dict" /\ last'.text.body.defs.kind = "absent"
       =>
          /\ last'.status = "returned"
          /\ last'.newly_added = <<>>
          /\ last'.saves = 0
          /\ library' = library
          /\ file' = file]_vars

\* C9 witness: analyze returned a result without new_trait_definitions, on a
\* library that has traits.
AbsentDefsIsEmptyWitness ==
    /\ last.status = "returned"
    /\ last.result.defs.kind = "absent"
    /\ library.traits # <<>>

\* C10: the analysis log does not influence the store. From every state in
\* which analyze awaits the oracle, responses with the same
\* new_trait_definitions and any of the logs lead, under the same behaviour
\* of the storage, to one and the same library, file, accepted keys and error.
Effect(r) ==
    [library |-> r.library, file |-> r.file, newly_added |-> r.out.newly_added,
     status |-> r.out.status, err |-> r.out.err]
LogIgnored ==
    pc = "oracle" =>
        \A defs \in DefsValues, so \in SaveOutcomes :
            Cardinality({Effect(r) : r \in {analyze(library, file,
                                                   Text(<<>>, Doc(log, defs), <<>>), so) :
                                           log \in Logs}}) = 1

\* C10 witness: analyze accepted a proposed trait although the log reports no
\* discovery and assigns another trait.
LogIgnoredWitness ==
    /\ last.status = "returned"
    /\ last.newly_added # <<>>
    /\ \A i \in DOMAIN last.result.log :
          /\ ~last.result.log[i].is_new_discovery
          /\ last.result.log[i].assigned_trait \notin Range(last.newly_added)
    /\ last.result.log # <<>>

\* The step in which a request is handled without the credential.
Uncredentialed == ~api_key /\ pc = "idle" /\ last' # NoCall

\* C11: while GEMINI_API_KEY is missing, constructing the engine fails with
\* the ValueError of the configuration check and _engine stays None, so no
\* engine is ever constructed or retained, no request reaches
\* generate_content, and no request changes the library or TRAIT_FILE.
NoCredentialNoAnalysis ==
    [][(~api_key =>
            /\ engine' = None
            /\ made' = 0
            /\ oracle_calls' = 0
            /\ pc' # "oracle")
       /\ (Uncredentialed =>
            /\ last'.status = "raised"
            /\ last'.err = "ValueError"
            /\ ~last'.assimilated
            /\ last'.saves = 0
            /\ library' = library
            /\ file' = file)]_vars

\* A request was refused for the missing credential, with a loaded library.
NoCredentialNoAnalysisWitness ==
    /\ ~api_key
    /\ pc = "idle"
    /\ last.err = "ValueError"
    /\ engine = None
    /\ library.kind = "lib"

\* C12: load() with no TRAIT_FILE leaves the skeleton (the fixed meta stub
\* and no traits) in memory and, when it returns, has written that skeleton
\* to TRAIT_FILE; load() with a serialised library in TRAIT_FILE makes memory
\* equal to it, returns, and does not call _save or change the file.
LoadInitialises ==
    [][pc = "boot" =>
        /\ (file.kind = "absent" =>
              /\ library' = Library(META, <<>>)
              /\ booted'.saves = 1
              /\ (pc' = "idle" => file' = Dump(library')))
        /\ (file.kind = "doc" =>
              /\ pc' = "idle"
              /\ Dump(library') = file
              /\ booted'.saves = 0
              /\ file' = file)]_vars

\* A library with a trait was loaded from TRAIT_FILE, and nothing ran since.
LoadInitialisesWitness ==
    /\ pc = "idle"
    /\ last = NoCall
    /\ booted.saves = 0
    /\ library.traits # <<>>
    /\ file = Dump(library)

\* C13: load() on a TRAIT_FILE that is no JSON raises (JSONDecodeError), the
\* error leaves TraitManager() so the process never serves, memory does not
\* become a library, _save is not called and the file keeps its content.
MalformedLoadFails ==
    [][pc = "boot" /\ file.kind = "malformed" =>
        /\ pc' = "crashed"
        /\ booted'.err = "JSONDecodeError"
        /\ booted'.saves = 0
        /\ library'.kind # "lib"
        /\ file' = file]_vars

\* The process ended at load on a TRAIT_FILE that is no JSON.
MalformedLoadFailsWitness ==
    /\ pc = "crashed"
    /\ booted.err = "JSONDecodeError"
    /\ file = Malformed
    /\ library = EmptyDict

\* C14: get_knowledge_base_string() returns PLACEHOLDER exactly when the
\* library has no traits, otherwise one line per trait in the mapping's
\* order, and never the empty string.
KnowledgeBaseSummary ==
    pc \in {"idle", "oracle"} =>
        \A s \in {get_knowledge_base_string(library)} :
            /\ s.err = "none"
            /\ (s.text = PLACEHOLDER <=> library.traits = <<>>)
            /\ (library.traits # <<>> =>
                  /\ Len(s.lines) = Len(library.traits)
                  /\ \A i \in DOMAIN s.lines : s.lines[i].key = library.traits[i].key)
            /\ ~(s.text = "joined" /\ s.lines = <<>>)

\* A document in a fenced code block: the opening fence, a tag or none,
\* a newline, the document, a newline, the closing fence.
Fenced(tag, D) == Text(<<FENCE>> \o tag \o <<"ws">>, D, <<"ws", FENCE>>)
\* The texts that are JSON documents.
Documents == Bodies \ {Garbage}
\* What a call of analyze made of the text: the value it parsed and returned,
\* what it handed to assimilate, and the store afterwards.
Parsed(r) ==
    [library |-> r.library, file |-> r.file, status |-> r.out.status, err |-> r.out.err,
     result |-> r.out.result, newly_added |-> r.out.newly_added,
     assimilated |-> r.out.assimilated, arg |-> r.out.arg, saves |-> r.out.saves]
RoundTrips(tags) ==
    \A D \in Documents, tag \in tags, so \in SaveOutcomes :
        Parsed(analyze(library, file, Fenced(tag, D), so))
            = Parsed(analyze(library, file, Text(<<>>, D, <<>>), so))

\* C15 as stated: a JSON document in a fenced code block, whatever the tag
\* after the opening fence (none, json, another word), makes analyze parse
\* the same value, return the same result and change the store in the same
\* way as the document alone.
FenceRoundTrip == pc = "oracle" => RoundTrips({<<>>, <<"json">>, <<"tag">>})

\* C15, amended: a JSON document in a fenced code block whose opening fence
\* has no tag or the tag json makes analyze parse the same value, return the
\* same result and change the store in the same way as the document alone.
FenceRoundTripJson == pc = "oracle" => RoundTrips({<<>>, <<"json">>})

\* analyze was answered with a document in a json-tagged fenced block, parsed
\* it and inserted what it proposes.
FenceRoundTripJsonWitness ==
    /\ pc = "idle"
    /\ last.status = "returned"
    /\ last.text.pre = <<FENCE, "json", "ws">>
    /\ last.text.post = <<"ws", FENCE>>
    /\ last.newly_added # <<>>

\* C17: a call of analyze issues at most one generate_content call; when that
\* call raises, analyze ends there with the error: no second call, no
\* assimilate, no _save, and the library and TRAIT_FILE as they were.
SingleOracleCall ==
    [][/\ oracle_calls' <= 1
       /\ (pc = "oracle" =>
             /\ pc' = "idle"
             /\ oracle_calls' = oracle_calls)
       /\ (pc = "oracle" /\ ~Answered =>
             /\ last'.status = "raised"
             /\ last'.err = "TransportError"
             /\ ~last'.assimilated
             /\ last'.saves = 0
             /\ library' = library
             /\ file' = file)]_vars

\* The oracle call of a request failed, on a library that holds traits.
SingleOracleCallWitness ==
    /\ pc = "idle"
    /\ last.err = "TransportError"
    /\ oracle_calls = 1
    /\ library.traits # <<>>

\* C18: a request whose get_engine() fails leaves _engine None, and without
\* the credential every request fails so; once _engine holds an instance no
\* engine is constructed any more and _engine keeps that instance, so the
\* process constructs at most one engine.
LazySingleton ==
    [][/\ made' <= 1
       /\ (engine # None => engine' = engine /\ made' = made)
       /\ (pc = "idle" /\ ~api_key =>
             /\ engine' = None
             /\ last'.err = "ValueError")
       /\ (pc = "idle" /\ api_key =>
             /\ engine' = 1
             /\ made' = 1
             /\ last'.err # "ValueError")]_vars

\* A request is served by the engine an earlier request constructed: the
\* library has grown since it was loaded, which only a request does.
LazySingletonWitness ==
    /\ pc = "oracle"
    /\ engine = 1
    /\ made = 1
    /\ Len(library.traits) > 1

\* C20: whenever the store is loaded, TRAIT_FILE holds a library document,
\* every trait of that document is in memory with the same data, and after
\* an assimilate call that inserted and returned the two are equal; this
\* whatever way the _save calls ended.
DurableBehindMemory ==
    pc \in {"idle", "oracle"} =>
        /\ file.kind = "doc"
        /\ \A i \in DOMAIN file.traits :
              Has(library.traits, file.traits[i].key, file.traits[i].data)
        /\ (last.status = "returned" /\ last.newly_added # <<>> => file = Dump(library))

\* The analyze requests whose handler has started and not ended.
InHandler == {r \in AnalyzeReqs : reqs[r].phase \in {"oracle", "loop", "checked", "save"}}

SlowOracleDoesNotStall ==
    \A r \in AnalyzeReqs :
        reqs[r].phase = "oracle" =>
            /\ (reqs["b"].phase = "arrived" => ENABLED BrainDispatch)
            /\ (reqs["b"].phase = "ready" => ENABLED BrainRespond)
            /\ \A q \in AnalyzeReqs : reqs[q].phase = "arrived" => ENABLED Begin(q)
====
